---------------------------- MODULE Spec2Model ----------------------------
(***************************************************************************)
(* DynamoToES: a Lambda handler that replays a batch of DynamoDB Stream    *)
(* records against an Elasticsearch and/or an OpenSearch client.           *)
(*                                                                         *)
(* Python strings whose characters the code inspects (ARNs, attribute      *)
(* names, number payloads, ids, JSON bodies) are sequences of one-character *)
(* strings, so lower(), replace(), int(), float(), re.match() and          *)
(* json.dumps() are computed character by character.                       *)
(*                                                                         *)
(* Python values are records tagged by the field k:                        *)
(*   None   [k |-> "None"]                                                 *)
(*   str    [k |-> "str",   s |-> <<chars>>]                               *)
(*   bool   [k |-> "bool",  b |-> BOOLEAN]                                 *)
(*   int    [k |-> "int",   n |-> Nat]                                     *)
(*   float  [k |-> "float", num |-> Nat, scale |-> Nat]   num / 10^scale   *)
(*   list   [k |-> "list",  items |-> <<values>>]                          *)
(*   dict   [k |-> "dict",  kv |-> << <<key, value>>, ... >>]  in          *)
(*          insertion order, keys distinct                                 *)
(* and a raised exception is the value [k |-> "exc", e |-> name].          *)
(***************************************************************************)
EXTENDS Integers, Sequences, FiniteSets, TLC

VARIABLES
    records,        \* event["Records"]: the batch, each record named by its place in SampleRecords
    es_client,      \* TRUE iff env.ES_ENDPOINT is set (an Elasticsearch client)
    os_client,      \* TRUE iff env.OS_ENDPOINT is set (an OpenSearch client)
    table_mapping,  \* module global loaded from lib/table_mapping.json, or None
    pc,             \* position of lambda_handler: "start", "loop", "done", "crashed"
    it,             \* number of records the for loop has consumed
    calls,          \* every call issued to a search client, in order
    failures,       \* every "Failed to process:" report, in order
    esIndices,      \* indices existing on the Elasticsearch cluster
    node,           \* argument of the decoder / Keys of the id generator under test
    forceNum,       \* forceNum argument of unmarshalValue under test
    table_name,     \* table_name argument of generateId under test
    result          \* value returned (or exception raised) by the function under test

vars == <<records, es_client, os_client, table_mapping, pc, it, calls,
          failures, esIndices, node, forceNum, table_name, result>>

-----------------------------------------------------------------------------
(* Python values *)

None == [k |-> "None"]
PyStr(s) == [k |-> "str", s |-> s]
PyBool(b) == [k |-> "bool", b |-> b]
PyInt(n) == [k |-> "int", n |-> n]
PyFloat(num, scale) == [k |-> "float", num |-> num, scale |-> scale]
PyList(items) == [k |-> "list", items |-> items]
PyDict(kv) == [k |-> "dict", kv |-> kv]
Raise(e) == [k |-> "exc", e |-> e]
IsExc(v) == v.k = "exc"

\* d[key] = value on a dict: an existing key keeps its place and takes the
\* new value, a new key is appended
DictSet(kv, key, value) ==
    IF \E p \in 1..Len(kv) : kv[p][1] = key
    THEN [p \in 1..Len(kv) |-> IF kv[p][1] = key THEN <<key, value>> ELSE kv[p]]
    ELSE Append(kv, <<key, value>>)

DictHas(kv, key) == \E p \in 1..Len(kv) : kv[p][1] = key

DictGet(kv, key) == kv[CHOOSE p \in 1..Len(kv) : kv[p][1] = key][2]

DictKeys(kv) == {kv[p][1] : p \in 1..Len(kv)}

-----------------------------------------------------------------------------
(* Characters *)

Digits == <<"0", "1", "2", "3", "4", "5", "6", "7", "8", "9">>
UpperCase == <<"A", "B", "C", "D", "E", "F", "G", "H", "I", "J", "K", "L", "M",
               "N", "O", "P", "Q", "R", "S", "T", "U", "V", "W", "X", "Y", "Z">>
LowerCase == <<"a", "b", "c", "d", "e", "f", "g", "h", "i", "j", "k", "l", "m",
               "n", "o", "p", "q", "r", "s", "t", "u", "v", "w", "x", "y", "z">>

Range(f) == {f[x] : x \in DOMAIN f}
DigitChars == Range(Digits)
UpperChars == Range(UpperCase)
IsDigit(c) == c \in DigitChars
DigitValue(c) == (CHOOSE p \in 1..10 : Digits[p] = c) - 1

\* str.lower() on ASCII text
LowerChar(c) ==
    IF c \in UpperChars
    THEN LowerCase[CHOOSE p \in 1..26 : UpperCase[p] = c]
    ELSE c

lower(s) == [p \in 1..Len(s) |-> LowerChar(s[p])]

\* s.replace(old, new, 1) for a one-character old: only the first occurrence
replace(s, old, new) ==
    IF \E p \in 1..Len(s) : s[p] = old
    THEN LET p == CHOOSE q \in 1..Len(s) :
                      s[q] = old /\ \A r \in 1..(q - 1) : s[r] # old
         IN  SubSeq(s, 1, p - 1) \o new \o SubSeq(s, p + 1, Len(s))
    ELSE s

-----------------------------------------------------------------------------
(* Numbers.  Number payloads are drawn from the alphabet of decimal digits, *)
(* the point and letters; signs, exponents, blanks, "inf" and "nan" are     *)
(* outside the inputs of this model.                                        *)

RECURSIVE DecValue(_)
DecValue(s) ==
    IF s = <<>> THEN 0
    ELSE DecValue(SubSeq(s, 1, Len(s) - 1)) * 10 + DigitValue(s[Len(s)])

\* int(s): a non-empty run of decimal digits, else ValueError
int(s) ==
    IF s # <<>> /\ \A p \in 1..Len(s) : IsDigit(s[p])
    THEN PyInt(DecValue(s))
    ELSE Raise("ValueError")

RECURSIVE Normalize(_, _)
Normalize(num, scale) ==
    IF scale > 0 /\ num % 10 = 0
    THEN Normalize(num \div 10, scale - 1)
    ELSE PyFloat(num, scale)

\* float(s): digits with at most one point and at least one digit, else
\* ValueError; "4.50" and "4.5" are the same float
float(s) ==
    LET points == {p \in 1..Len(s) : s[p] = "."}
        digits == {p \in 1..Len(s) : IsDigit(s[p])}
    IN  IF /\ Cardinality(points) <= 1
           /\ digits # {}
           /\ points \cup digits = 1..Len(s)
        THEN LET pt == IF points = {} THEN Len(s) + 1
                       ELSE CHOOSE p \in points : TRUE
             IN  Normalize(DecValue(SubSeq(s, 1, pt - 1) \o SubSeq(s, pt + 1, Len(s))),
                           IF points = {} THEN 0 ELSE Len(s) - pt)
        ELSE Raise("ValueError")

\* try: return int(s)  except ValueError: return float(s)
int_or_float(s) ==
    IF IsExc(int(s)) THEN float(s) ELSE int(s)

RECURSIVE IntToStr(_)
IntToStr(n) ==
    IF n < 10 THEN <<Digits[n + 1]>>
    ELSE IntToStr(n \div 10) \o <<Digits[(n % 10) + 1]>>

RECURSIVE Pow10(_)
Pow10(e) == IF e = 0 THEN 1 ELSE 10 * Pow10(e - 1)

RECURSIVE ZeroPad(_, _)
ZeroPad(s, width) == IF Len(s) >= width THEN s ELSE ZeroPad(<<"0">> \o s, width)

\* repr of a float in positional notation: at least one fractional digit
FloatToStr(f) ==
    IF f.scale = 0 THEN IntToStr(f.num) \o <<".", "0">>
    ELSE IntToStr(f.num \div Pow10(f.scale)) \o <<".">>
         \o ZeroPad(IntToStr(f.num % Pow10(f.scale)), f.scale)

\* str(value) for the scalars a decoded key attribute can be
str(v) ==
    CASE v.k = "None"  -> <<"N", "o", "n", "e">>
      [] v.k = "str"   -> v.s
      [] v.k = "bool"  -> IF v.b THEN <<"T", "r", "u", "e">>
                          ELSE <<"F", "a", "l", "s", "e">>
      [] v.k = "int"   -> IntToStr(v.n)
      [] v.k = "float" -> FloatToStr(v)

RECURSIVE json_dumps(_)
RECURSIVE JoinItems(_, _)
RECURSIVE JoinPairs(_, _)

\* ", ".join of the serialised items from position p on
JoinItems(items, p) ==
    IF p > Len(items) THEN <<>>
    ELSE (IF p > 1 THEN <<",", " ">> ELSE <<>>)
         \o json_dumps(items[p]) \o JoinItems(items, p + 1)

JoinPairs(kv, p) ==
    IF p > Len(kv) THEN <<>>
    ELSE (IF p > 1 THEN <<",", " ">> ELSE <<>>)
         \o <<"\"">> \o kv[p][1] \o <<"\"", ":", " ">>
         \o json_dumps(kv[p][2]) \o JoinPairs(kv, p + 1)

\* json.dumps(obj) with the default separators; the characters of this
\* model's strings need no escaping
json_dumps(v) ==
    CASE v.k = "None"  -> <<"n", "u", "l", "l">>
      [] v.k = "str"   -> <<"\"">> \o v.s \o <<"\"">>
      [] v.k = "bool"  -> IF v.b THEN <<"t", "r", "u", "e">>
                          ELSE <<"f", "a", "l", "s", "e">>
      [] v.k = "int"   -> IntToStr(v.n)
      [] v.k = "float" -> FloatToStr(v)
      [] v.k = "list"  -> <<"[">> \o JoinItems(v.items, 1) \o <<"]">>
      [] v.k = "dict"  -> <<"{">> \o JoinPairs(v.kv, 1) \o <<"}">>

-----------------------------------------------------------------------------
(* Unmarshalling of DynamoDB JSON *)

reserved_fields == <<
    <<"u", "i", "d">>,
    <<"_", "i", "d">>,
    <<"_", "t", "y", "p", "e">>,
    <<"_", "s", "o", "u", "r", "c", "e">>,
    <<"_", "a", "l", "l">>,
    <<"_", "p", "a", "r", "e", "n", "t">>,
    <<"_", "f", "i", "e", "l", "d", "n", "a", "m", "e", "s">>,
    <<"_", "r", "o", "u", "t", "i", "n", "g">>,
    <<"_", "i", "n", "d", "e", "x">>,
    <<"_", "s", "i", "z", "e">>,
    <<"_", "t", "i", "m", "e", "s", "t", "a", "m", "p">>,
    <<"_", "t", "t", "l">> >>

\* the tags unmarshalValue has a branch for
T_NULL == <<"N", "U", "L", "L">>
T_S == <<"S">>
T_BOOL == <<"B", "O", "O", "L">>
T_N == <<"N">>
T_M == <<"M">>
T_BS == <<"B", "S">>
T_L == <<"L">>
T_SS == <<"S", "S">>
T_NS == <<"N", "S">>
KnownTags == {T_NULL, T_S, T_BOOL, T_N, T_M, T_BS, T_L, T_SS, T_NS}

ReservedNames == Range(reserved_fields)

\* if key1 in reserved_fields: key1 = key1.replace("_", "__", 1)
SanitizeKey(key1) ==
    IF key1 \in ReservedNames THEN replace(key1, "_", <<"_", "_">>)
    ELSE key1

RECURSIVE unmarshalValue(_, _)
RECURSIVE UnmarshalMap(_, _, _)
RECURSIVE UnmarshalList(_, _, _)
RECURSIVE UnmarshalNS(_, _, _, _)

\* the "M" branch: entries are decoded in order into data; an exception
\* raised by an entry leaves the function
UnmarshalMap(kv, p, data) ==
    IF p > Len(kv) THEN PyDict(data)
    ELSE LET v == unmarshalValue(kv[p][2], TRUE)
         IN  IF IsExc(v) THEN v
             ELSE UnmarshalMap(kv, p + 1, DictSet(data, SanitizeKey(kv[p][1]), v))

\* the "BS" / "L" branch: items are decoded with the default forceNum=False
UnmarshalList(items, p, data) ==
    IF p > Len(items) THEN PyList(data)
    ELSE LET v == unmarshalValue(items[p], FALSE)
         IN  IF IsExc(v) THEN v
             ELSE UnmarshalList(items, p + 1, Append(data, v))

\* the "NS" branch
UnmarshalNS(items, p, data, force) ==
    IF p > Len(items) THEN PyList(data)
    ELSE LET v == IF force THEN int_or_float(items[p].s) ELSE items[p]
         IN  IF IsExc(v) THEN v
             ELSE UnmarshalNS(items, p + 1, Append(data, v), force)

\* for key, value in list(node.items()): the first entry whose key is a known
\* tag returns; entries under any other key are passed over, and a node with
\* no known tag falls off the end of the function, which returns None.
\* A node that is not a dict has no items(): AttributeError.
unmarshalValue(n, force) ==
    IF n.k # "dict" THEN Raise("AttributeError")
    ELSE LET hits == {p \in 1..Len(n.kv) : n.kv[p][1] \in KnownTags}
         IN  IF hits = {} THEN None
             ELSE LET p == CHOOSE q \in hits : \A r \in hits : q <= r
                      key == n.kv[p][1]
                      value == n.kv[p][2]
                  IN  CASE key = T_NULL -> None
                        [] key \in {T_S, T_BOOL} -> value
                        [] key = T_N ->
                             IF force THEN int_or_float(value.s) ELSE value
                        [] key = T_M ->
                             IF value.k # "dict" THEN Raise("AttributeError")
                             ELSE UnmarshalMap(value.kv, 1, <<>>)
                        [] key \in {T_BS, T_L} -> UnmarshalList(value.items, 1, <<>>)
                        [] key = T_SS -> PyList(value.items)
                        [] key = T_NS -> UnmarshalNS(value.items, 1, <<>>, force)

\* data = {}; data["M"] = node; return unmarshalValue(data, True)
unmarshalJson(n) == unmarshalValue(PyDict(<< <<T_M, n>> >>), TRUE)

-----------------------------------------------------------------------------
(* Stream records.  A record is [eventName, eventSourceARN, dynamodb] with  *)
(* eventName a string compared as a whole, eventSourceARN a character       *)
(* sequence and dynamodb a dict that may hold "Keys" and "NewImage".        *)

K_Keys == <<"K", "e", "y", "s">>
K_NewImage == <<"N", "e", "w", "I", "m", "a", "g", "e">>
K_PrimaryKey == <<"P", "r", "i", "m", "a", "r", "y", "K", "e", "y">>
K_SortKey == <<"S", "o", "r", "t", "K", "e", "y">>

\* d[key]: KeyError when the key is absent
Subscript(d, key) ==
    IF DictHas(d.kv, key) THEN DictGet(d.kv, key) ELSE Raise("KeyError")

ArnPrefix == <<"a", "r", "n", ":", "a", "w", "s", ":", "d", "y", "n", "a", "m", "o", "d", "b", ":">>
ArnTable == <<":", "t", "a", "b", "l", "e", "/">>

\* the class [0-9a-zA-Z_-]
TableChars == Range(Digits) \cup Range(UpperCase) \cup Range(LowerCase) \cup {"_", "-"}
TableChar(c) == c \in TableChars

HasAt(s, p, lit) ==
    p + Len(lit) - 1 <= Len(s) /\ SubSeq(s, p, p + Len(lit) - 1) = lit

\* last position of the run of table-name characters that starts at p
\* (p - 1 when there is none): the greedy [0-9a-zA-Z_-]+
RECURSIVE NameEnd(_, _)
NameEnd(s, p) ==
    IF p <= Len(s) /\ TableChar(s[p]) THEN NameEnd(s, p + 1) ELSE p - 1

\* ":table/([0-9a-zA-Z_-]+)/.+" matches at position j
TailMatches(s, j) ==
    /\ HasAt(s, j, ArnTable)
    /\ LET b == j + Len(ArnTable)
           e == NameEnd(s, b)
       IN  e >= b /\ e + 2 <= Len(s) /\ s[e + 1] = "/"

\* re.compile("arn:aws:dynamodb:.*?:.*?:table/([0-9a-zA-Z_-]+)/.+").match(arn):
\* i is the ":" that ends the first lazy ".*?", j the ":" of ":table/" that
\* ends the second; the lazy quantifiers take the least i, then the least j
ArnMatches(s) ==
    IF ~HasAt(s, 1, ArnPrefix) THEN {}
    ELSE LET firsts == {i \in (Len(ArnPrefix) + 1)..Len(s) : s[i] = ":"}
             seconds == {j \in (Len(ArnPrefix) + 2)..Len(s) :
                             s[j] = ":" /\ TailMatches(s, j)}
         IN  {ij \in firsts \X seconds : ij[1] < ij[2]}

\* getTable without the .lower(): the table name as the ARN spells it
getTable_keeps_case(record) ==
    LET s == record.eventSourceARN
        ms == ArnMatches(s)
    IN  IF ms = {} THEN Raise("Exception")
        ELSE LET m == CHOOSE x \in ms : \A y \in ms :
                          x[1] < y[1] \/ (x[1] = y[1] /\ x[2] <= y[2])
                 b == m[2] + Len(ArnTable)
             IN  PyStr(SubSeq(s, b, NameEnd(s, b)))

\* return m.group(1).lower(), or raise Exception("Table not found in SourceARN")
getTable(record) ==
    LET s == record.eventSourceARN
        ms == ArnMatches(s)
    IN  IF ms = {} THEN Raise("Exception")
        ELSE LET m == CHOOSE x \in ms : \A y \in ms :
                          x[1] < y[1] \/ (x[1] = y[1] /\ x[2] <= y[2])
                 b == m[2] + Len(ArnTable)
             IN  PyStr(lower(SubSeq(s, b, NameEnd(s, b))))

RECURSIVE JoinValues(_, _)
\* the loop over keys.items(): str(value) joined with "|"
JoinValues(kv, p) ==
    IF p > Len(kv) THEN <<>>
    ELSE (IF p > 1 THEN <<"|">> ELSE <<>>) \o str(kv[p][2]) \o JoinValues(kv, p + 1)

\* generateId(record, table_name); mapping is the module global table_mapping
generateId(record, tname, mapping) ==
    LET rawKeys == Subscript(record.dynamodb, K_Keys)
        keys == IF IsExc(rawKeys) THEN rawKeys ELSE unmarshalJson(rawKeys)
    IN  IF IsExc(keys) THEN keys
        ELSE IF mapping.k # "None" /\ DictHas(mapping.kv, tname)
        THEN LET entry == DictGet(mapping.kv, tname)
                 pk == Subscript(keys, Subscript(entry, K_PrimaryKey).s)
             IN  IF DictHas(entry.kv, K_SortKey)
                 THEN LET sk == Subscript(keys, Subscript(entry, K_SortKey).s)
                      IN  IF IsExc(pk) THEN pk
                          ELSE IF IsExc(sk) THEN sk
                          ELSE PyStr(str(pk) \o <<"|">> \o str(sk))
                 ELSE IF IsExc(pk) THEN pk ELSE PyStr(str(pk))
        ELSE PyStr(JoinValues(keys.kv, 1))

-----------------------------------------------------------------------------
(* Inputs of the handler *)

MaxBatch == 3    \* longest batch
MaxFaults == 1   \* most client calls that raise during one invocation

\* one tagged value: {"S": "42"}, {"N": "7"}, ...
Tagged(tag, payload) == PyDict(<< <<tag, payload>> >>)
Attr_S(s) == Tagged(T_S, PyStr(s))
Attr_N(s) == Tagged(T_N, PyStr(s))

A_id == <<"i", "d">>
A_ts == <<"t", "s">>
A__id == <<"_", "i", "d">>
A_total == <<"t", "o", "t", "a", "l">>

ArnOrders == <<"a", "r", "n", ":", "a", "w", "s", ":", "d", "y", "n", "a", "m", "o", "d", "b", ":", "e", "u", ":", "1", ":", "t", "a", "b", "l", "e", "/", "O", "r", "d", "e", "r", "s", "/", "s", "t", "r", "e", "a", "m", "/", "1">>
ArnNoTable == <<"a", "r", "n", ":", "a", "w", "s", ":", "d", "y", "n", "a", "m", "o", "d", "b", ":", "e", "u", ":", "1", ":", "s", "t", "r", "e", "a", "m", "/", "O", "r", "d", "e", "r", "s", "/", "1">>

KeysFull == PyDict(<< <<A_id, Attr_S(<<"4", "2">>)>>, <<A_ts, Attr_N(<<"7">>)>> >>)
KeysHashOnly == PyDict(<< <<A_id, Attr_S(<<"4", "2">>)>> >>)
ImageGood ==
    PyDict(<< <<A_id, Attr_S(<<"4", "2">>)>>, <<A_ts, Attr_N(<<"7">>)>>,
              <<A__id, Attr_S(<<"x">>)>>, <<A_total, Attr_N(<<"4", ".", "5", "0">>)>> >>)
ImageBadNumber == PyDict(<< <<A_id, Attr_S(<<"4", "2">>)>>, <<A_total, Attr_N(<<"x">>)>> >>)

Record(name, arn, keys, image) ==
    [eventName |-> name, eventSourceARN |-> arn,
     dynamodb |-> PyDict(<< <<K_Keys, keys>>, <<K_NewImage, image>> >>)]
RecordKeysOnly(name, arn, keys) ==
    [eventName |-> name, eventSourceARN |-> arn,
     dynamodb |-> PyDict(<< <<K_Keys, keys>> >>)]

\* the stream records batches are made of; a batch names its records by
\* their place in this list
SampleRecords == <<
    Record("INSERT", ArnOrders, KeysFull, ImageGood),
    Record("MODIFY", ArnOrders, KeysFull, ImageGood),
    RecordKeysOnly("REMOVE", ArnOrders, KeysFull),
    Record("MODIFY", ArnNoTable, KeysFull, ImageGood),
    Record("INSERT", ArnOrders, KeysFull, ImageBadNumber),
    RecordKeysOnly("REMOVE", ArnOrders, KeysHashOnly),
    Record("TTL", ArnOrders, KeysFull, ImageGood) >>

Batches == UNION {[1..n -> DOMAIN SampleRecords] : n \in 0..MaxBatch}

\* lib/table_mapping.json as update_mapping.py writes it for a table with a
\* HASH key id and a RANGE key ts, or no file at all
MappingOrders ==
    PyDict(<< <<<<"o", "r", "d", "e", "r", "s">>, PyDict(<< <<K_PrimaryKey, PyStr(A_id)>>,
                                    <<K_SortKey, PyStr(A_ts)>> >>)>> >>)
Mappings == {None, MappingOrders}

-----------------------------------------------------------------------------
(* What the document operations compute from a record before they call the  *)
(* client depends on the record and the mapping alone.  It is evaluated     *)
(* once for each mapping m and sample record r:                             *)
(*   table  getTable(record)                                                *)
(*   doc    json.dumps(unmarshalJson(record["dynamodb"]["NewImage"]))       *)
(*   id     generateId(record, table)                                       *)
(* each the value returned or the exception raised.                         *)

Evaluated(m, record) ==
    LET table == getTable(record)
        image == Subscript(record.dynamodb, K_NewImage)
        doc == IF IsExc(image) THEN image ELSE unmarshalJson(image)
    IN  [eventName |-> record.eventName,
         table |-> table,
         doc |-> IF IsExc(doc) THEN doc ELSE PyStr(json_dumps(doc)),
         id |-> IF IsExc(table) THEN table ELSE generateId(record, table.s, m)]

Prepared ==
    [m \in Mappings |-> [r \in DOMAIN SampleRecords |-> Evaluated(m, SampleRecords[r])]]

-----------------------------------------------------------------------------
(* The three document operations.  record is a stream record with the       *)
(* values above.  Each operation returns what it did: the calls it issued   *)
(* to the client in order, the exception it raised (None if it returned)    *)
(* and the indices of the Elasticsearch cluster afterwards.  fault names    *)
(* the client method that raises during this invocation ("none": every call *)
(* succeeds).  A call entry records whether it raised and, for the          *)
(* Elasticsearch client, whether the index was missing on the cluster when  *)
(* the call was issued.                                                     *)

Faults == {"none", "exists", "create", "index", "delete"}

CreateBody == <<"{", "\"", "s", "e", "t", "t", "i", "n", "g", "s", "\"", ":", " ", "{", " ", "\"", "i", "n", "d", "e", "x", ".", "m", "a", "p", "p", "i", "n", "g", ".", "c", "o", "e", "r", "c", "e", "\"", ":", " ", "t", "r", "u", "e", " ", "}", " ", "}">>

Call(client, op, index, id, body, indices, fault) ==
    [client |-> client, op |-> op, index |-> index, id |-> id, body |-> body,
     missing |-> (client = "es" /\ index \notin indices),
     raised |-> (fault = op)]

Outcome(cs, exc, indices) == [calls |-> cs, exc |-> exc, indices |-> indices]

BackendError == Raise("TransportError")

\* search_client.index(...): on success the document is stored, and an
\* Elasticsearch cluster has the index from then on
IndexCall(client, index, id, body, indices, fault, before) ==
    Outcome(Append(before, Call(client, "index", index, id, body, indices, fault)),
            IF fault = "index" THEN BackendError ELSE None,
            IF fault # "index" /\ client = "es" THEN indices \cup {index} ELSE indices)

\* insert_document with the index-existence check moved to the top of the
\* function, before the document is unmarshalled and the id generated
insert_document_checks_first(client, record, indices, fault) ==
    LET table == record.table
        doc == record.doc
        newId == record.id
    IN  IF IsExc(table) THEN Outcome(<<>>, table, indices)
        ELSE IF client = "es"
        THEN LET exists == Call(client, "exists", table.s, <<>>, <<>>, indices, fault)
                 create == Call(client, "create", table.s, <<>>, CreateBody, indices, fault)
                 checked == IF table.s \in indices THEN <<exists>> ELSE <<exists, create>>
             IN  IF fault = "exists" THEN Outcome(<<exists>>, BackendError, indices)
                 ELSE IF table.s \notin indices /\ fault = "create"
                 THEN Outcome(<<exists, create>>, BackendError, indices)
                 ELSE IF IsExc(doc) THEN Outcome(checked, doc, indices \cup {table.s})
                 ELSE IF IsExc(newId) THEN Outcome(checked, newId, indices \cup {table.s})
                 ELSE IndexCall(client, table.s, newId.s, doc.s,
                                indices \cup {table.s}, fault, checked)
        ELSE IF IsExc(doc) THEN Outcome(<<>>, doc, indices)
        ELSE IF IsExc(newId) THEN Outcome(<<>>, newId, indices)
        ELSE IndexCall(client, table.s, newId.s, doc.s, indices, fault, <<>>)

insert_document(client, record, indices, fault) ==
    LET table == record.table
        doc == record.doc
        newId == record.id
    IN  IF IsExc(table) THEN Outcome(<<>>, table, indices)
        ELSE IF IsExc(doc) THEN Outcome(<<>>, doc, indices)
        ELSE IF IsExc(newId) THEN Outcome(<<>>, newId, indices)
        ELSE IF client = "es"
        THEN LET exists == Call(client, "exists", table.s, <<>>, <<>>, indices, fault)
                 create == Call(client, "create", table.s, <<>>, CreateBody, indices, fault)
             IN  IF fault = "exists" THEN Outcome(<<exists>>, BackendError, indices)
                 ELSE IF table.s \notin indices
                 THEN IF fault = "create"
                      THEN Outcome(<<exists, create>>, BackendError, indices)
                      ELSE IndexCall(client, table.s, newId.s, doc.s,
                                     indices \cup {table.s}, fault, <<exists, create>>)
                 ELSE IndexCall(client, table.s, newId.s, doc.s, indices, fault,
                                <<exists>>)
        ELSE IndexCall(client, table.s, newId.s, doc.s, indices, fault, <<>>)

modify_document(client, record, indices, fault) ==
    LET table == record.table
        docId == record.id
        doc == record.doc
    IN  IF IsExc(table) THEN Outcome(<<>>, table, indices)
        ELSE IF IsExc(docId) THEN Outcome(<<>>, docId, indices)
        ELSE IF IsExc(doc) THEN Outcome(<<>>, doc, indices)
        ELSE IndexCall(client, table.s, docId.s, doc.s, indices, fault, <<>>)

remove_document(client, record, indices, fault) ==
    LET table == record.table
        docId == record.id
    IN  IF IsExc(table) THEN Outcome(<<>>, table, indices)
        ELSE IF IsExc(docId) THEN Outcome(<<>>, docId, indices)
        ELSE Outcome(<<Call(client, "delete", table.s, docId.s, <<>>, indices, fault)>>,
                     IF fault = "delete" THEN BackendError ELSE None, indices)

-----------------------------------------------------------------------------
(* lambda_handler *)

\* the branch of the if / elif chain on record["eventName"]; no branch for
\* any other name
document_op(record, client, indices, fault) ==
    CASE record.eventName = "INSERT" -> insert_document(client, record, indices, fault)
      [] record.eventName = "REMOVE" -> remove_document(client, record, indices, fault)
      [] record.eventName = "MODIFY" -> modify_document(client, record, indices, fault)
      [] OTHER -> Outcome(<<>>, None, indices)

\* the body of the try statement for one record: the Elasticsearch client
\* first, then the OpenSearch client; an exception leaves the block
TryBlock(record, indices, faultEs, faultOs) ==
    LET first == IF es_client THEN document_op(record, "es", indices, faultEs)
                 ELSE Outcome(<<>>, None, indices)
    IN  IF IsExc(first.exc) \/ ~os_client THEN first
        ELSE LET second == document_op(record, "os", first.indices, faultOs)
             IN  Outcome(first.calls \o second.calls, second.exc, second.indices)

\* a loop that takes the records from the end of the batch
LoopIndexReversed(consumed, n) == n - consumed

\* for record in event["Records"]: the place in the batch of the record taken
\* after `consumed` records of a batch of n
LoopIndex(consumed, n) == consumed + 1

\* an except clause that reports and re-raises: the invocation ends
ExceptClauseReraises == "crashed"

\* except Exception as e: ...; continue: where lambda_handler goes on after
\* the report
ExceptClause == "loop"

\* the calls of one record, each marked with the record's place in the batch
Mark(cs, n) == [p \in 1..Len(cs) |-> [rec |-> n] @@ cs[p]]

NoTest == None

Init ==
    /\ records \in Batches
    /\ es_client \in BOOLEAN
    /\ os_client \in BOOLEAN
    /\ table_mapping \in Mappings
    /\ pc = "start"
    /\ it = 0
    /\ calls = <<>>
    /\ failures = <<>>
    /\ esIndices = {}
    /\ node = NoTest /\ forceNum = FALSE /\ table_name = <<>> /\ result = NoTest

FaultsLeft == MaxFaults - Cardinality({p \in 1..Len(calls) : calls[p].raised})

\* search_client.info(): a call of no record and no index
InfoCall(client, fault) ==
    [rec |-> 0, client |-> client, op |-> "info", index |-> <<>>, id |-> <<>>,
     body |-> <<>>, missing |-> FALSE, raised |-> (fault = "info")]

\* print(es_client.info()); print(os_client.info()): outside any try, so an
\* exception ends the invocation before the loop
ClusterInfo ==
    /\ pc = "start"
    /\ \E faultEs, faultOs \in {"none", "info"} :
         LET es == IF es_client THEN <<InfoCall("es", faultEs)>> ELSE <<>>
             esRaised == es_client /\ faultEs = "info"
             os == IF os_client /\ ~esRaised THEN <<InfoCall("os", faultOs)>> ELSE <<>>
             raised == esRaised \/ (os # <<>> /\ faultOs = "info")
         IN  /\ raised => FaultsLeft > 0
             /\ calls' = calls \o es \o os
             /\ pc' = IF raised THEN "crashed" ELSE "loop"
    /\ UNCHANGED <<records, es_client, os_client, table_mapping, it, failures,
                   esIndices, node, forceNum, table_name, result>>

\* one pass of the loop body over the next record.  An exception leaves the
\* try block, so at most one client call raises per pass: `who` is the client
\* whose call raises and `fault` the method that does.
Iteration(name) ==
    /\ pc = "loop"
    /\ it < Len(records)
    /\ \E n \in {LoopIndex(it, Len(records))} :
       \E record \in {Prepared[table_mapping][records[n]]} :
         /\ name = IF record.eventName \in {"INSERT", "REMOVE", "MODIFY"}
                   THEN record.eventName
                   ELSE "other"
         /\ \E who \in {"es", "os"}, fault \in Faults :
              \E out \in {TryBlock(record, esIndices,
                                   IF who = "es" THEN fault ELSE "none",
                                   IF who = "os" THEN fault ELSE "none")} :
                 /\ (\E p \in 1..Len(out.calls) : out.calls[p].raised) => FaultsLeft > 0
                 /\ calls' = calls \o Mark(out.calls, n)
                 /\ esIndices' = out.indices
                 /\ failures' = IF IsExc(out.exc)
                                THEN Append(failures, [rec |-> n, error |-> out.exc.e])
                                ELSE failures
                 /\ pc' = IF IsExc(out.exc) THEN ExceptClause ELSE "loop"
    /\ it' = it + 1
    /\ UNCHANGED <<records, es_client, os_client, table_mapping,
                   node, forceNum, table_name, result>>

Insert == Iteration("INSERT")
Remove == Iteration("REMOVE")
Modify == Iteration("MODIFY")
Ignore == Iteration("other")

\* the loop has consumed the batch: lambda_handler returns
Return ==
    /\ pc = "loop"
    /\ it = Len(records)
    /\ pc' = "done"
    /\ UNCHANGED <<records, es_client, os_client, table_mapping, it, calls,
                   failures, esIndices, node, forceNum, table_name, result>>

Next == ClusterInfo \/ Insert \/ Remove \/ Modify \/ Ignore \/ Return

Spec == Init /\ [][Next]_vars

-----------------------------------------------------------------------------
(* unmarshalValue on its own: one call on an input drawn from DecodeInputs   *)

A___id == <<"_", "_", "i", "d">>
A_name == <<"n", "a", "m", "e">>
A_uid == <<"u", "i", "d">>
FieldNames == ReservedNames \cup {A___id, A_name}

Attr_B == Tagged(<<"B">>, PyStr(<<"Y", "Q">>))      \* a Binary attribute: no branch for "B"
ScalarAttrs == {Attr_S(<<"x">>), Attr_S(<<"y">>), Attr_N(<<"7">>), Attr_B}
LeafAttrs ==
    ScalarAttrs \cup
    { Attr_N(<<"4", ".", "5", "0">>), Attr_N(<<"x">>),
      Tagged(T_BOOL, PyBool(TRUE)), Tagged(T_NULL, PyBool(TRUE)),
      Tagged(T_SS, PyList(<<PyStr(<<"a">>), PyStr(<<"b">>)>>)),
      Tagged(T_NS, PyList(<<PyStr(<<"1">>), PyStr(<<"2", ".", "5">>)>>)),
      Tagged(T_L, PyList(<<Attr_N(<<"3">>), Attr_S(<<"x">>)>>)),
      Tagged(T_L, PyList(<<Attr_B>>)),
      Tagged(T_BS, PyList(<<PyStr(<<"Y", "Q">>)>>)) }

Attr_M(kv) == Tagged(T_M, PyDict(kv))

DecodeInputs ==
    LeafAttrs
    \cup {Attr_M(<< <<k, v>> >>) : k \in FieldNames, v \in LeafAttrs}
    \cup {Attr_M(<< <<kv[1], kv[3]>>, <<kv[2], kv[4]>> >>) :
              kv \in {x \in FieldNames \X FieldNames \X ScalarAttrs \X ScalarAttrs :
                          x[1] # x[2]}}
    \cup {Attr_M(<< <<kv[1], Attr_M(<< <<kv[2], kv[3]>> >>)>> >>) :
              kv \in FieldNames \X FieldNames \X ScalarAttrs}
    \cup {Tagged(T_L, PyList(<<Attr_M(<< <<k, v>> >>)>>)) :
              k \in FieldNames, v \in ScalarAttrs}

HandlerIdle ==
    /\ records = <<>> /\ es_client = FALSE /\ os_client = FALSE
    /\ it = 0 /\ calls = <<>> /\ failures = <<>> /\ esIndices = {}

InitDecode ==
    /\ node \in DecodeInputs
    /\ forceNum \in BOOLEAN
    /\ result = NoTest
    /\ pc = "call"
    /\ table_name = <<>>
    /\ table_mapping = None
    /\ HandlerIdle

Unmarshal ==
    /\ pc = "call"
    /\ result' = unmarshalValue(node, forceNum)
    /\ pc' = "returned"
    /\ UNCHANGED <<records, es_client, os_client, table_mapping, it, calls,
                   failures, esIndices, node, forceNum, table_name>>

NextDecode == Unmarshal

SpecDecode == InitDecode /\ [][NextDecode]_vars

-----------------------------------------------------------------------------
(* generateId on its own: one call on Keys, a table name and a mapping      *)

KeyNames == {A_id, A_ts, A__id, A___id, A_uid}
KeyAttrs == {Attr_S(<<"A">>), Attr_N(<<"7">>), Attr_N(<<"1", ".", "5", "0">>)}

KeyInputs ==
    {PyDict(<< <<k, v>> >>) : k \in KeyNames, v \in KeyAttrs}
    \cup {PyDict(<< <<kv[1], kv[3]>>, <<kv[2], kv[4]>> >>) :
              kv \in {x \in KeyNames \X KeyNames \X KeyAttrs \X KeyAttrs : x[1] # x[2]}}

T_orders == <<"o", "r", "d", "e", "r", "s">>
T_users == <<"u", "s", "e", "r", "s">>

\* mappings with an entry for the table orders only
IdMappings ==
    {None}
    \cup {PyDict(<< <<T_orders, PyDict(<< <<K_PrimaryKey, PyStr(k)>> >>)>> >>) :
              k \in KeyNames}
    \cup {PyDict(<< <<T_orders, PyDict(<< <<K_PrimaryKey, PyStr(kk[1])>>,
                                          <<K_SortKey, PyStr(kk[2])>> >>)>> >>) :
              kk \in {x \in KeyNames \X KeyNames : x[1] # x[2]}}

InitId ==
    /\ node \in KeyInputs
    /\ table_name \in {T_orders, T_users}
    /\ table_mapping \in IdMappings
    /\ forceNum = TRUE
    /\ result = NoTest
    /\ pc = "call"
    /\ HandlerIdle

GenerateId ==
    /\ pc = "call"
    /\ result' = generateId([dynamodb |-> PyDict(<< <<K_Keys, node>> >>)],
                            table_name, table_mapping)
    /\ pc' = "returned"
    /\ UNCHANGED <<records, es_client, os_client, table_mapping, it, calls,
                   failures, esIndices, node, forceNum, table_name>>

NextId == GenerateId

SpecId == InitId /\ [][NextId]_vars

-----------------------------------------------------------------------------
(* Properties of lambda_handler, checked under Spec *)

\* the record at place n of the batch, with the values computed from it
BatchRecord(n) == Prepared[table_mapping][records[n]]

Handled(record) == record.eventName \in {"INSERT", "REMOVE", "MODIFY"}

\* the event fails before any client call: no table in the ARN, NewImage
\* missing or not decodable (INSERT, MODIFY), Keys not decodable or a mapped
\* key field missing
FailsBeforeDispatch(record) ==
    CASE record.eventName \in {"INSERT", "MODIFY"} ->
             IsExc(record.table) \/ IsExc(record.doc) \/ IsExc(record.id)
      [] record.eventName = "REMOVE" -> IsExc(record.table) \/ IsExc(record.id)
      [] OTHER -> FALSE

CallsOf(n) == {p \in 1..Len(calls) : calls[p].rec = n}
RaisedOf(n) == {p \in CallsOf(n) : calls[p].raised}
DocOps(n, client) ==
    {p \in CallsOf(n) : calls[p].client = client /\ calls[p].op \in {"index", "delete"}}
Configured(client) == IF client = "es" THEN es_client ELSE os_client
ReportsOf(n) == {p \in 1..Len(failures) : failures[p].rec = n}

\* C1: with both clients configured, an Elasticsearch call that raises for an
\* event does not keep the OpenSearch write / delete of that event from
\* being issued
C1_FailureSparesOtherBackend ==
    \A n \in 1..it :
        (es_client /\ os_client /\ \E p \in RaisedOf(n) : calls[p].client = "es")
            => DocOps(n, "os") # {}

\* C2: an error raised while processing an event never aborts the batch: the
\* invocation does not end inside the loop, every event taken so far that can
\* be dispatched had its calls issued, and each failing event is reported
\* exactly once (and no other event is reported)
C2_BatchNeverAborts ==
    /\ pc = "crashed" => it = 0
    /\ pc = "done" => it = Len(records)
    /\ \A n \in 1..it :
         LET record == BatchRecord(n)
             dispatched == Handled(record) /\ (es_client \/ os_client)
             failed == RaisedOf(n) # {} \/ (dispatched /\ FailsBeforeDispatch(record))
         IN  /\ Cardinality(ReportsOf(n)) = IF failed THEN 1 ELSE 0
             /\ (dispatched /\ ~FailsBeforeDispatch(record)) => CallsOf(n) # {}
    /\ \A p \in 1..Len(failures) : failures[p].rec \in 1..it

\* a batch of three whose second event failed: the calls of the first and of
\* the third were issued and there is one report
C2_Witness ==
    /\ pc = "done" /\ Len(records) = 3
    /\ Len(failures) = 1 /\ failures[1].rec = 2
    /\ CallsOf(1) # {} /\ CallsOf(3) # {}

\* C3: every index-write to the Elasticsearch client comes after an
\* index-existence check in the same event's processing, and is never issued
\* while the index is missing
C3_IndexEnsuredBeforeUpsert ==
    \A p \in 1..Len(calls) :
        (calls[p].client = "es" /\ calls[p].op = "index")
            => /\ ~calls[p].missing
               /\ \E q \in 1..(p - 1) :
                      /\ calls[q].rec = calls[p].rec
                      /\ calls[q].client = "es" /\ calls[q].op = "exists"

NoUpperCase(s) == \A p \in 1..Len(s) : s[p] \notin UpperChars

ExpectedOp(record) == IF record.eventName = "REMOVE" THEN "delete" ELSE "index"

\* C5: for a well-formed event whose calls all succeed, each configured client
\* gets exactly one document operation, of the event's type (INSERT, MODIFY:
\* an index-write of the decoded NewImage; REMOVE: a delete), at the derived
\* id and on the lower-cased table name; a client not configured gets none
C5_OneOperationPerBackend ==
    \A n \in 1..it :
        LET record == BatchRecord(n)
        IN  (Handled(record) /\ ~FailsBeforeDispatch(record) /\ RaisedOf(n) = {})
            => \A client \in {"es", "os"} :
                 IF Configured(client)
                 THEN /\ Cardinality(DocOps(n, client)) = 1
                      /\ \A p \in DocOps(n, client) :
                           /\ calls[p].op = ExpectedOp(record)
                           /\ calls[p].index = record.table.s
                           /\ NoUpperCase(calls[p].index)
                           /\ calls[p].id = record.id.s
                           /\ calls[p].op = "index" => calls[p].body = record.doc.s
                 ELSE DocOps(n, client) = {}

\* a REMOVE and an INSERT, each written to both clients
C5_Witness ==
    /\ es_client /\ os_client
    /\ \E n, m \in 1..it :
         /\ BatchRecord(n).eventName = "REMOVE" /\ BatchRecord(m).eventName = "INSERT"
         /\ RaisedOf(n) = {} /\ RaisedOf(m) = {}
         /\ \A client \in {"es", "os"} :
              Cardinality(DocOps(n, client)) = 1 /\ Cardinality(DocOps(m, client)) = 1

\* C8: the calls of event i, on every client, are issued before any call of
\* event i+1: the log of calls follows the batch order, and each call is one
\* of the operation of the event at that place
C8_ArrivalOrder ==
    /\ \A p, q \in 1..Len(calls) : p < q => calls[p].rec <= calls[q].rec
    /\ \A p \in 1..Len(calls) :
         calls[p].rec # 0 =>
            /\ calls[p].rec \in 1..it
            /\ calls[p].op = "delete" <=> BatchRecord(calls[p].rec).eventName = "REMOVE"
            /\ calls[p].op # "delete" =>
                   BatchRecord(calls[p].rec).eventName \in {"INSERT", "MODIFY"}

\* the OpenSearch call of the first event precedes the Elasticsearch call of
\* the second
C8_Witness ==
    \E p, q \in 1..Len(calls) :
        /\ p < q
        /\ calls[p].rec = 1 /\ calls[p].client = "os"
        /\ calls[q].rec = 2 /\ calls[q].client = "es"

\* C9: an event that fails before dispatch causes no client call at all
C9_NoCallBeforeDispatch ==
    \A n \in 1..it : FailsBeforeDispatch(BatchRecord(n)) => CallsOf(n) = {}

\* an INSERT that failed before dispatch was reported and left no call, next
\* to an event whose calls were issued
C9_Witness ==
    /\ es_client
    /\ \E n, m \in 1..it :
         /\ BatchRecord(n).eventName = "INSERT"
         /\ FailsBeforeDispatch(BatchRecord(n))
         /\ ReportsOf(n) # {} /\ CallsOf(n) = {}
         /\ CallsOf(m) # {}

-----------------------------------------------------------------------------
(* Properties of unmarshalValue, checked under SpecDecode *)

FirstKnown(n) ==
    CHOOSE q \in 1..Len(n.kv) :
        /\ n.kv[q][1] \in KnownTags
        /\ \A r \in 1..(q - 1) : n.kv[r][1] \notin KnownTags

RECURSIVE HasUnsupportedTag(_)
\* the tagged value n, or one nested in its Map or List payload, carries a
\* tag outside the nine
HasUnsupportedTag(n) ==
    /\ n.k = "dict"
    /\ n.kv # <<>>
    /\ IF \A p \in 1..Len(n.kv) : n.kv[p][1] \notin KnownTags THEN TRUE
       ELSE LET key == n.kv[FirstKnown(n)][1]
                value == n.kv[FirstKnown(n)][2]
            IN  CASE key = T_M ->
                         \E p \in 1..Len(value.kv) : HasUnsupportedTag(value.kv[p][2])
                  [] key = T_L ->
                         \E p \in 1..Len(value.items) : HasUnsupportedTag(value.items[p])
                  [] OTHER -> FALSE

\* C4: decoding a value that carries a tag outside the nine raises
C4_UnsupportedTagFails ==
    (pc = "returned" /\ HasUnsupportedTag(node)) => IsExc(result)

IsMapAttr(n) == n.k = "dict" /\ Len(n.kv) = 1 /\ n.kv[1][1] = T_M

RECURSIVE FieldsOf(_)
\* every key of the decoded value, at any depth
FieldsOf(v) ==
    CASE v.k = "dict" ->
             DictKeys(v.kv) \cup UNION {FieldsOf(v.kv[p][2]) : p \in 1..Len(v.kv)}
      [] v.k = "list" -> UNION {FieldsOf(v.items[p]) : p \in 1..Len(v.items)}
      [] OTHER -> {}

\* C7: no reserved name is a key of the decoded document, at any depth, and
\* every key of a Map that is not reserved is carried over unchanged
C7_ReservedNamesRewritten ==
    (pc = "returned" /\ ~IsExc(result)) =>
        /\ FieldsOf(result) \cap ReservedNames = {}
        /\ IsMapAttr(node) =>
               \A p \in 1..Len(node.kv[1][2].kv) :
                   node.kv[1][2].kv[p][1] \notin ReservedNames
                       => DictHas(result.kv, node.kv[1][2].kv[p][1])

\* C10: the decoded mapping has as many entries as the input Map, and each
\* entry's decoded value is under its own output key
C10_NoFieldLost ==
    (pc = "returned" /\ IsMapAttr(node) /\ ~IsExc(result)) =>
        LET kv == node.kv[1][2].kv
        IN  /\ Len(result.kv) = Len(kv)
            /\ \A p \in 1..Len(kv) :
                 /\ DictHas(result.kv, SanitizeKey(kv[p][1]))
                 /\ DictGet(result.kv, SanitizeKey(kv[p][1])) = unmarshalValue(kv[p][2], TRUE)

-----------------------------------------------------------------------------
(* Properties of generateId, checked under SpecId *)

\* the decoded value of key attribute name of the event's Keys
KeyValue(name) == unmarshalValue(DictGet(node.kv, name), TRUE)

\* C6: with a mapping entry for the table and the named key fields present in
\* Keys, the id is str(PrimaryKey value), followed by "|" and str(SortKey
\* value) when a SortKey is declared, and KeyError is raised only when a named
\* field is absent; without an entry it is the stringified key values joined
\* by "|" in the order of Keys
C6_IdFromKeys ==
    pc = "returned" =>
        IF table_mapping.k # "None" /\ DictHas(table_mapping.kv, table_name)
        THEN LET entry == DictGet(table_mapping.kv, table_name).kv
                 pk == DictGet(entry, K_PrimaryKey).s
                 sorted == DictHas(entry, K_SortKey)
                 sk == DictGet(entry, K_SortKey).s
             IN  IF DictHas(node.kv, pk) /\ (sorted => DictHas(node.kv, sk))
                 THEN result = PyStr(str(KeyValue(pk)) \o
                                     (IF sorted THEN <<"|">> \o str(KeyValue(sk))
                                      ELSE <<>>))
                 ELSE result = Raise("KeyError")
        ELSE result = PyStr(JoinValues(
                          [p \in 1..Len(node.kv) |->
                              <<node.kv[p][1], KeyValue(node.kv[p][1])>>], 1))

=============================================================================
